---------------------------- MODULE Spec2Model ----------------------------
(***************************************************************************)
(* Standcup match-making core: src/standcup/models.py, utils.py and        *)
(* matchmaker.py.                                                          *)
(*                                                                         *)
(* Player ids are the naturals 1..NumPlayers; their order is the order of  *)
(* the id strings, which sorted() uses in the doubles signature.           *)
(* Python floats are modelled as exact rationals <<numerator,              *)
(* denominator>> in lowest terms with a positive denominator.              *)
(***************************************************************************)
EXTENDS Integers, Sequences, FiniteSets, TLC

(* ------------------------------ bounds -------------------------------- *)

\* number of player ids in the roster
NumPlayers == 4

\* longest match history explored
MaxMatches == 2

\* longest history that may hold matches that are not proper (see
\* proper_match)
MaxAnyMatches == 1

\* longest history on which the match maker is called
MaxCalled == 1

\* number of player ids a caller of the enumeration alone may pass
MaxAvailable == 5

\* highest score a team reaches in an ordinary match
MaxGoals == 1

\* the score of the winner of a one-sided match
Blowout == 40

\* largest num_suggestions requested
MaxSuggestions == 4

\* the most matches a row of a drawn statistics frame has played
MaxPlayed == 11

\* the largest goal difference, either way, of a drawn statistics row
MaxDiff == 12

\* the longest list of players offered to the Team constructor
MaxRawTeam == 3

Players == 1..NumPlayers

\* Team.players when absent: None
NoPlayer == 0

(* --------------------------- float arithmetic ------------------------- *)

RECURSIVE GCD(_, _)
GCD(a, b) == IF b = 0 THEN a ELSE GCD(b, a % b)

RAbsInt(a) == IF a < 0 THEN -a ELSE a

\* the rational n/d (d # 0) in lowest terms
Rat(n, d) ==
    LET g == GCD(RAbsInt(n), RAbsInt(d))
        s == IF d < 0 THEN -1 ELSE 1
    IN <<(s * n) \div g, (s * d) \div g>>

RInt(n) == <<n, 1>>

\* sums over the least common denominator and products with the common
\* factors cancelled first, so that intermediate integers stay small
RAdd(x, y) ==
    LET g == GCD(x[2], y[2])
    IN Rat(x[1] * (y[2] \div g) + y[1] * (x[2] \div g), (x[2] \div g) * y[2])

RNeg(x) == <<-x[1], x[2]>>
RSub(x, y) == RAdd(x, RNeg(y))

RMul(x, y) ==
    LET g1 == GCD(RAbsInt(x[1]), y[2])
        g2 == GCD(RAbsInt(y[1]), x[2])
    IN Rat((x[1] \div g1) * (y[1] \div g2), (x[2] \div g2) * (y[2] \div g1))

RDiv(x, y) == RMul(x, Rat(y[2], y[1]))

\* x < y, by integer parts and then by the reciprocals of the fractional
\* parts, so that no product of two denominators is formed
RECURSIVE RLess(_, _)
RLess(x, y) ==
    LET qx == x[1] \div x[2]
        qy == y[1] \div y[2]
        rx == x[1] % x[2]
        ry == y[1] % y[2]
    IN IF qx # qy THEN qx < qy
       ELSE IF ry = 0 THEN FALSE
       ELSE IF rx = 0 THEN TRUE
       ELSE RLess(<<y[2], ry>>, <<x[2], rx>>)

RLeq(x, y) == ~RLess(y, x)
RMax(x, y) == IF RLess(x, y) THEN y ELSE x
RMin(x, y) == IF RLess(y, x) THEN y ELSE x
RAbs(x) == <<RAbsInt(x[1]), x[2]>>

\* round(n/d) to the nearest integer, ties to the even one (numpy.round,
\* and the float formatting of an exactly representable tie)
RoundHalfEven(n, d) ==
    LET q == n \div d
        r == n % d
    IN IF 2 * r < d THEN q
       ELSE IF 2 * r > d THEN q + 1
       ELSE IF q % 2 = 0 THEN q ELSE q + 1

(* ------------------------------ sequences ----------------------------- *)

RECURSIVE SumSeq(_)
SumSeq(s) == IF s = <<>> THEN 0 ELSE Head(s) + SumSeq(Tail(s))

RECURSIVE RSumSeq(_)
RSumSeq(s) == IF s = <<>> THEN RInt(0) ELSE RAdd(Head(s), RSumSeq(Tail(s)))

Range(s) == {s[i] : i \in DOMAIN s}

BoolInt(b) == IF b THEN 1 ELSE 0

MaxOfSet(S) == IF S = {} THEN 0 ELSE CHOOSE m \in S : \A n \in S : n <= m

(* ------------------------------ models.py ----------------------------- *)

\* Team: players is a list of 1 or 2 player ids (Field(min_length=1,
\* max_length=2)); the ids themselves are not constrained
Team == {<<p>> : p \in Players} \cup {<<p, q>> : p \in Players, q \in Players}

\* the scores explored
Scores == 0..MaxGoals \cup {Blowout}

\* Match: two teams and two scores >= 0
Match == [team1 : Team, team2 : Team,
          team1_score : Scores, team2_score : Scores]

\* mutant: the upper limit of the players of a team is missing
validate_team_no_max(players) == Len(players) >= 1

\* Team.players: Field(min_length=1, max_length=2)
validate_team(players) == Len(players) >= 1 /\ Len(players) <= 2

\* Match.team1_score, Match.team2_score: Field(ge=0)
validate_score(score) == score >= 0

\* mutant: team 1 wins on equal scores as well
winner_team_ties_to_first(match) ==
    IF match.team1_score >= match.team2_score THEN 1
    ELSE IF match.team2_score > match.team1_score THEN 2
    ELSE 0

\* mutant: a match that team 1 does not win goes to team 2
winner_team_no_tie(match) ==
    IF match.team1_score > match.team2_score THEN 1 ELSE 2

\* Match.winner_team: 1, 2, or 0 for None (a tie)
winner_team(match) ==
    IF match.team1_score > match.team2_score THEN 1
    ELSE IF match.team2_score > match.team1_score THEN 2
    ELSE 0

is_singles(team) == Len(team) = 1

\* the teammate column of a row of to_player_match_df
teammate_of(team, player_id) ==
    IF Len(team) = 2 /\ team[1] = player_id THEN team[2]
    ELSE IF Len(team) = 2 THEN team[1] ELSE NoPlayer

team1_row(match, match_id, player_id) ==
    [player_id |-> player_id, match_id |-> match_id, team |-> 1,
     teammate |-> teammate_of(match.team1, player_id),
     opponent1 |-> match.team2[1],
     opponent2 |-> IF Len(match.team2) = 2 THEN match.team2[2] ELSE NoPlayer,
     goals_for |-> match.team1_score, goals_against |-> match.team2_score,
     won |-> winner_team(match) = 1, lost |-> winner_team(match) = 2,
     tied |-> winner_team(match) = 0,
     is_singles |-> is_singles(match.team1) /\ is_singles(match.team2)]

\* mutant: a team-2 row carries the goals from team 1's side
team2_row_unmirrored(match, match_id, player_id) ==
    [player_id |-> player_id, match_id |-> match_id, team |-> 2,
     teammate |-> teammate_of(match.team2, player_id),
     opponent1 |-> match.team1[1],
     opponent2 |-> IF Len(match.team1) = 2 THEN match.team1[2] ELSE NoPlayer,
     goals_for |-> match.team1_score, goals_against |-> match.team2_score,
     won |-> winner_team(match) = 2, lost |-> winner_team(match) = 1,
     tied |-> winner_team(match) = 0,
     is_singles |-> is_singles(match.team1) /\ is_singles(match.team2)]

team2_row(match, match_id, player_id) ==
    [player_id |-> player_id, match_id |-> match_id, team |-> 2,
     teammate |-> teammate_of(match.team2, player_id),
     opponent1 |-> match.team1[1],
     opponent2 |-> IF Len(match.team1) = 2 THEN match.team1[2] ELSE NoPlayer,
     goals_for |-> match.team2_score, goals_against |-> match.team1_score,
     won |-> winner_team(match) = 2, lost |-> winner_team(match) = 1,
     tied |-> winner_team(match) = 0,
     is_singles |-> is_singles(match.team1) /\ is_singles(match.team2)]

\* the rows one match adds: one per player of team1, then one per player of
\* team2
match_rows(match, match_id) ==
    [i \in 1..Len(match.team1) |-> team1_row(match, match_id, match.team1[i])]
    \o [i \in 1..Len(match.team2) |-> team2_row(match, match_id, match.team2[i])]

\* StandcupData.to_player_match_df over data.matches[1..n]
RECURSIVE player_match_rows(_, _)
player_match_rows(ms, n) ==
    IF n = 0 THEN <<>>
    ELSE player_match_rows(ms, n - 1) \o match_rows(ms[n], n)

to_player_match_df(ms) == player_match_rows(ms, Len(ms))

(* ------------------------------ utils.py ------------------------------ *)

\* the rows of one group of groupby("player_id")
group_rows(df, p) == SelectSeq(df, LAMBDA row : row.player_id = p)

\* mutant: every match not won is summed as lost
player_stats_row_not_won_lost(df, p) ==
    LET g == group_rows(df, p)
        matches_played == Len(g)
        wins == SumSeq([i \in DOMAIN g |-> BoolInt(g[i].won)])
        goals_for == SumSeq([i \in DOMAIN g |-> g[i].goals_for])
        goals_against == SumSeq([i \in DOMAIN g |-> g[i].goals_against])
    IN [player_id |-> p,
        matches_played |-> matches_played,
        wins |-> wins,
        losses |-> SumSeq([i \in DOMAIN g |-> BoolInt(~g[i].won)]),
        ties |-> SumSeq([i \in DOMAIN g |-> BoolInt(g[i].tied)]),
        goals_for |-> goals_for,
        goals_against |-> goals_against,
        win_rate |-> Rat(RoundHalfEven(wins * 1000, matches_played), 10),
        goal_difference |-> goals_for - goals_against]

\* one row of the frame calculate_player_stats returns; win_rate is kept in
\* tenths of a percent, the unit .round(1) rounds to
player_stats_row(df, p) ==
    LET g == group_rows(df, p)
        matches_played == Len(g)
        wins == SumSeq([i \in DOMAIN g |-> BoolInt(g[i].won)])
        goals_for == SumSeq([i \in DOMAIN g |-> g[i].goals_for])
        goals_against == SumSeq([i \in DOMAIN g |-> g[i].goals_against])
    IN [player_id |-> p,
        matches_played |-> matches_played,
        wins |-> wins,
        losses |-> SumSeq([i \in DOMAIN g |-> BoolInt(g[i].lost)]),
        ties |-> SumSeq([i \in DOMAIN g |-> BoolInt(g[i].tied)]),
        goals_for |-> goals_for,
        goals_against |-> goals_against,
        win_rate |-> Rat(RoundHalfEven(wins * 1000, matches_played), 10),
        goal_difference |-> goals_for - goals_against]

\* calculate_player_stats: a function from the player ids that have a row
\* to their statistics; the empty function for an empty frame
calculate_player_stats(ms) ==
    LET df == to_player_match_df(ms)
    IN [p \in {df[i].player_id : i \in DOMAIN df} |-> player_stats_row(df, p)]

\* set(player_matches[player_matches["player_id"] == player_id]["match_id"])
matches_of(df, player_id) ==
    {df[i].match_id : i \in {j \in DOMAIN df : df[j].player_id = player_id}}

\* mutant: a match with both players on one team is counted as well
head_to_head_step_counts_teammates(acc, match, player1_id, player2_id) ==
    LET p1_team == IF player1_id \in Range(match.team1) THEN 1 ELSE 2
        p2_team == IF player2_id \in Range(match.team1) THEN 1 ELSE 2
        winner == winner_team(match)
    IN IF winner = p1_team THEN [acc EXCEPT !.p1_wins = @ + 1]
       ELSE IF winner = p2_team THEN [acc EXCEPT !.p2_wins = @ + 1]
       ELSE [acc EXCEPT !.ties = @ + 1]

\* one pass of the loop of calculate_head_to_head over a common match
head_to_head_step(acc, match, player1_id, player2_id) ==
    LET p1_team == IF player1_id \in Range(match.team1) THEN 1 ELSE 2
        p2_team == IF player2_id \in Range(match.team1) THEN 1 ELSE 2
        winner == winner_team(match)
    IN IF p1_team = p2_team THEN acc
       ELSE IF winner = p1_team THEN [acc EXCEPT !.p1_wins = @ + 1]
       ELSE IF winner = p2_team THEN [acc EXCEPT !.p2_wins = @ + 1]
       ELSE [acc EXCEPT !.ties = @ + 1]

\* the loop over common_matches, of which the first n match ids are done;
\* a match id is the position of its match in data.matches
RECURSIVE head_to_head_upto(_, _, _, _, _)
head_to_head_upto(ms, common_matches, n, player1_id, player2_id) ==
    IF n = 0 THEN [p1_wins |-> 0, p2_wins |-> 0, ties |-> 0]
    ELSE LET acc == head_to_head_upto(ms, common_matches, n - 1,
                                      player1_id, player2_id)
         IN IF n \in common_matches
            THEN head_to_head_step(acc, ms[n], player1_id, player2_id)
            ELSE acc

\* calculate_head_to_head; with no common match the loop runs over nothing
\* and the result is the all-zero record of the early return
calculate_head_to_head(ms, player1_id, player2_id) ==
    LET player_matches == to_player_match_df(ms)
        player1_matches == matches_of(player_matches, player1_id)
        player2_matches == matches_of(player_matches, player2_id)
        common_matches == player1_matches \cap player2_matches
        acc == head_to_head_upto(ms, common_matches, Len(ms),
                                 player1_id, player2_id)
    IN [p1_wins |-> acc.p1_wins, p2_wins |-> acc.p2_wins, ties |-> acc.ties,
        total_matches |-> acc.p1_wins + acc.p2_wins + acc.ties]

(* ---------------------------- matchmaker.py --------------------------- *)

\* mutant: the goal difference per match is not capped at 0.3
unclamped_strength_uncapped(stats_row) ==
    LET win_rate == RDiv(stats_row.win_rate, RInt(100))
        matches_played == stats_row.matches_played
        goal_diff_per_match ==
            Rat(stats_row.goal_difference,
                IF matches_played > 1 THEN matches_played ELSE 1)
        experience_weight == RMin(Rat(matches_played, 10), RInt(1))
        base_strength ==
            RAdd(RMul(win_rate, Rat(7, 10)),
                 RMul(RAdd(RDiv(goal_diff_per_match, RInt(3)), Rat(1, 2)),
                      Rat(3, 10)))
    IN RAdd(RMul(base_strength, experience_weight),
            RMul(Rat(1, 2), RSub(RInt(1), experience_weight)))

\* mutant: the share of matches not won is taken for the win rate
unclamped_strength_loss_rate(stats_row) ==
    LET win_rate == RSub(RInt(1), RDiv(stats_row.win_rate, RInt(100)))
        matches_played == stats_row.matches_played
        goal_diff_per_match ==
            Rat(stats_row.goal_difference,
                IF matches_played > 1 THEN matches_played ELSE 1)
        experience_weight == RMin(Rat(matches_played, 10), RInt(1))
        base_strength ==
            RAdd(RMul(win_rate, Rat(7, 10)),
                 RMul(RAdd(RMin(RDiv(goal_diff_per_match, RInt(3)), Rat(3, 10)),
                           Rat(1, 2)),
                      Rat(3, 10)))
    IN RAdd(RMul(base_strength, experience_weight),
            RMul(Rat(1, 2), RSub(RInt(1), experience_weight)))

\* the strength of one row of the stats frame before it is clamped
unclamped_strength(row) ==
    LET win_rate == RDiv(row.win_rate, RInt(100))
        matches_played == row.matches_played
        goal_diff_per_match ==
            Rat(row.goal_difference,
                IF matches_played > 1 THEN matches_played ELSE 1)
        experience_weight == RMin(Rat(matches_played, 10), RInt(1))
        base_strength ==
            RAdd(RMul(win_rate, Rat(7, 10)),
                 RMul(RAdd(RMin(RDiv(goal_diff_per_match, RInt(3)), Rat(3, 10)),
                           Rat(1, 2)),
                      Rat(3, 10)))
    IN RAdd(RMul(base_strength, experience_weight),
            RMul(Rat(1, 2), RSub(RInt(1), experience_weight)))

\* mutant: the lower clamp is missing
player_strength_no_floor(row) == RMin(RInt(1), unclamped_strength(row))

\* max(0.1, min(1.0, strength))
player_strength(row) ==
    RMax(Rat(1, 10), RMin(RInt(1), unclamped_strength(row)))

\* the loop over the rows of the stats frame: one entry per row
rate_players(frame) == [p \in DOMAIN frame |-> player_strength(frame[p])]

\* calculate_player_strengths: {} for an empty stats frame, else one entry
\* per row
calculate_player_strengths(ms) == rate_players(calculate_player_stats(ms))

\* d.setdefault(p1, {}).setdefault(p2, 0) on a dict of dicts
setdefault2(d, p1, p2) ==
    LET inner == IF p1 \in DOMAIN d THEN d[p1] ELSE <<>>
        inner2 == IF p2 \in DOMAIN inner THEN inner
                  ELSE [q \in DOMAIN inner \cup {p2} |->
                           IF q = p2 THEN 0 ELSE inner[q]]
    IN [q \in DOMAIN d \cup {p1} |-> IF q = p1 THEN inner2 ELSE d[q]]

\* d[p1][p2] += 1
increment2(d, p1, p2) ==
    [d EXCEPT ![p1] = [@ EXCEPT ![p2] = @ + 1]]

\* mutant: the reverse entry is created but not counted
count_pairing_one_way(d, p1, p2) ==
    increment2(setdefault2(setdefault2(d, p1, p2), p2, p1), p1, p2)

\* the four statements of one pairing: both setdefaults, both increments
count_pairing(d, p1, p2) ==
    increment2(increment2(setdefault2(setdefault2(d, p1, p2), p2, p1),
                          p1, p2),
               p2, p1)

\* mutant: only team1 is counted as a pair of teammates
count_teammates_first_team(d, match) ==
    IF Len(match.team1) = 2
    THEN count_pairing(d, match.team1[1], match.team1[2])
    ELSE d

\* the teammate loop of one match: team1, then team2
count_teammates(d, match) ==
    LET after1 == IF Len(match.team1) = 2
                  THEN count_pairing(d, match.team1[1], match.team1[2])
                  ELSE d
    IN IF Len(match.team2) = 2
       THEN count_pairing(after1, match.team2[1], match.team2[2])
       ELSE after1

\* the opponent loops of one match, from position <<i, j>> on
RECURSIVE count_opponents_from(_, _, _, _)
count_opponents_from(d, match, i, j) ==
    IF i > Len(match.team1) THEN d
    ELSE IF j > Len(match.team2) THEN count_opponents_from(d, match, i + 1, 1)
    ELSE count_opponents_from(
             count_pairing(d, match.team1[i], match.team2[j]), match, i, j + 1)

\* mutant: only the first player of team 1 is paired with the opponents
count_opponents_first_only(d, match) ==
    count_opponents_from(d, [match EXCEPT !.team1 = SubSeq(@, 1, 1)], 1, 1)

count_opponents(d, match) == count_opponents_from(d, match, 1, 1)

\* analyze_pairing_history over data.matches[1..n]
RECURSIVE pairing_history_upto(_, _)
pairing_history_upto(ms, n) ==
    IF n = 0 THEN [teammates |-> <<>>, opponents |-> <<>>]
    ELSE LET prev == pairing_history_upto(ms, n - 1)
         IN [teammates |-> count_teammates(prev.teammates, ms[n]),
             opponents |-> count_opponents(prev.opponents, ms[n])]

analyze_pairing_history(ms) == pairing_history_upto(ms, Len(ms))

\* max over the inner dicts' values of one mapping, 0 when it is empty
max_count(counts) ==
    MaxOfSet({MaxOfSet({counts[p][q] : q \in DOMAIN counts[p]}) :
                 p \in DOMAIN counts})

\* mutant: the opponent mapping is not looked at
_get_max_pairings_teammates_only(ph) ==
    IF DOMAIN ph.teammates # {} THEN max_count(ph.teammates) ELSE 0

_get_max_pairings(ph) ==
    LET max_pairings == IF DOMAIN ph.teammates # {}
                        THEN max_count(ph.teammates) ELSE 0
    IN IF DOMAIN ph.opponents # {}
       THEN (IF max_count(ph.opponents) > max_pairings
             THEN max_count(ph.opponents) ELSE max_pairings)
       ELSE max_pairings

\* counts.get(p1, {}).get(p2, 0)
get2(counts, p1, p2) ==
    IF p1 \in DOMAIN counts /\ p2 \in DOMAIN counts[p1]
    THEN counts[p1][p2] ELSE 0

\* total_pairings of _calculate_variety_score
total_pairings(team1, team2, ph) ==
    (IF Len(team1) = 2 THEN get2(ph.teammates, team1[1], team1[2]) ELSE 0)
    + (IF Len(team2) = 2 THEN get2(ph.teammates, team2[1], team2[2]) ELSE 0)
    + SumSeq([i \in DOMAIN team1 |->
                 SumSeq([j \in DOMAIN team2 |->
                            get2(ph.opponents, team1[i], team2[j])])])

\* mutant: the lower limit 0.1 is missing
_calculate_variety_score_no_floor(team1, team2, ph, max_pairings) ==
    IF max_pairings > 0
    THEN RSub(RInt(1),
              Rat(total_pairings(team1, team2, ph), max_pairings * 4))
    ELSE RInt(1)

_calculate_variety_score(team1, team2, ph, max_pairings) ==
    IF max_pairings > 0
    THEN RMax(Rat(1, 10),
              RSub(RInt(1),
                   Rat(total_pairings(team1, team2, ph), max_pairings * 4)))
    ELSE RInt(1)

\* f"{x:.2f}": x in hundredths
format_2f(x) == RoundHalfEven(x[1] * 100, x[2])

MissingData == "Missing player strength data"

\* sum(strengths[p] for p in team)
team_strength(team, strengths) ==
    RSumSeq([i \in DOMAIN team |-> strengths[team[i]]])

\* mutant: the difference is taken without its absolute value
balance_score_signed(team1_strength, team2_strength) ==
    LET max_strength == RMax(team1_strength, team2_strength)
    IN RSub(RInt(1),
            RDiv(RSub(team1_strength, team2_strength),
                 RMax(max_strength, RInt(1))))

\* mutant: the difference is not scaled by the stronger team
balance_score_unscaled(team1_strength, team2_strength) ==
    RSub(RInt(1), RAbs(RSub(team1_strength, team2_strength)))

\* mutant: the difference is not subtracted from 1
balance_score_inverted(team1_strength, team2_strength) ==
    RDiv(RAbs(RSub(team1_strength, team2_strength)),
         RMax(RMax(team1_strength, team2_strength), RInt(1)))

\* 1.0 - abs(team1_strength - team2_strength) / max(max_strength, 1.0)
balance_score(team1_strength, team2_strength) ==
    LET max_strength == RMax(team1_strength, team2_strength)
    IN RSub(RInt(1),
            RDiv(RAbs(RSub(team1_strength, team2_strength)),
                 RMax(max_strength, RInt(1))))

\* mutant: the two weights are exchanged
rate_teams_swapped_weights(team1, team2, strengths, ph, max_pairings) ==
    LET balance == balance_score(team_strength(team1, strengths),
                                 team_strength(team2, strengths))
        variety_score == _calculate_variety_score(team1, team2, ph, max_pairings)
        final_score == RAdd(RMul(balance, Rat(3, 10)),
                            RMul(variety_score, Rat(7, 10)))
    IN [score |-> final_score,
        reasoning |-> <<"Team balance", format_2f(balance),
                        "Variety", format_2f(variety_score)>>]

\* the score and the reasoning of two teams whose players all have a
\* strength; the reasoning text "Team balance: b, Variety: v" is kept as
\* its two formatted numbers
rate_teams(team1, team2, strengths, ph, max_pairings) ==
    LET balance == balance_score(team_strength(team1, strengths),
                                 team_strength(team2, strengths))
        variety_score == _calculate_variety_score(team1, team2, ph, max_pairings)
        final_score == RAdd(RMul(balance, Rat(7, 10)),
                            RMul(variety_score, Rat(3, 10)))
    IN [score |-> final_score,
        reasoning |-> <<"Team balance", format_2f(balance),
                        "Variety", format_2f(variety_score)>>]

\* mutant: a player without a strength entry is given the neutral 0.5
score_match_quality_neutral(team1, team2, strengths, ph, max_pairings) ==
    rate_teams(team1, team2,
               [p \in Range(team1 \o team2) \cup DOMAIN strengths |->
                   IF p \in DOMAIN strengths THEN strengths[p] ELSE Rat(1, 2)],
               ph, max_pairings)

\* score_match_quality: the pair (score, reasoning)
score_match_quality(team1, team2, strengths, ph, max_pairings) ==
    IF ~(\A p \in Range(team1 \o team2) : p \in DOMAIN strengths)
    THEN [score |-> RInt(0), reasoning |-> MissingData]
    ELSE rate_teams(team1, team2, strengths, ph, max_pairings)

\* MatchSuggestion(team1, team2, score, reasoning)
MatchSuggestion(team1, team2, scored) ==
    [team1_players |-> team1, team2_players |-> team2,
     score |-> scored.score, reasoning |-> scored.reasoning]

\* itertools.combinations(s, 2): the pairs <<s[i], s[j]>>, i < j, in
\* lexicographic order of positions
RECURSIVE combinations_from(_, _)
combinations_from(s, i) ==
    IF i >= Len(s) THEN <<>>
    ELSE [k \in 1..(Len(s) - i) |-> <<s[i], s[i + k]>>]
         \o combinations_from(s, i + 1)

\* mutant: the last element is never paired
combinations2_short(s) ==
    combinations_from(SubSeq(s, 1, Len(s) - 1), 1)

combinations2(s) == combinations_from(s, 1)

\* mutant: the later player of a pair is put in team 1
_generate_singles_suggestions_swapped(available, strengths, ph, max_pairings) ==
    LET pairs == combinations2(available)
    IN [k \in DOMAIN pairs |->
           MatchSuggestion(<<pairs[k][2]>>, <<pairs[k][1]>>,
               score_match_quality(<<pairs[k][2]>>, <<pairs[k][1]>>,
                                   strengths, ph, max_pairings))]

_generate_singles_suggestions(available, strengths, ph, max_pairings) ==
    LET pairs == combinations2(available)
    IN [k \in DOMAIN pairs |->
           MatchSuggestion(<<pairs[k][1]>>, <<pairs[k][2]>>,
               score_match_quality(<<pairs[k][1]>>, <<pairs[k][2]>>,
                                   strengths, ph, max_pairings))]

\* sorted() of a 2-tuple of ids
sorted_pair(t) == IF t[2] < t[1] THEN <<t[2], t[1]>> ELSE t

\* tuple order on two 2-tuples of ids
tuple_less(a, b) == a[1] < b[1] \/ (a[1] = b[1] /\ a[2] < b[2])

\* mutant: the pair of teams is not sorted
match_signature_ordered(team1, team2) ==
    <<sorted_pair(team1), sorted_pair(team2)>>

\* tuple(sorted([tuple(sorted(team1)), tuple(sorted(team2))]))
match_signature(team1, team2) ==
    LET normalized_team1 == sorted_pair(team1)
        normalized_team2 == sorted_pair(team2)
    IN IF tuple_less(normalized_team2, normalized_team1)
       THEN <<normalized_team2, normalized_team1>>
       ELSE <<normalized_team1, normalized_team2>>

\* [p for p in available_players if p not in team1]
remaining_players(available, team1) ==
    SelectSeq(available, LAMBDA p : p \notin Range(team1))

\* the body of the inner loop for one (team1, team2); acc holds suggestions
\* and seen_matches
doubles_step(acc, team1, team2, strengths, ph, max_pairings) ==
    IF Cardinality(Range(team1 \o team2)) = 4
       /\ match_signature(team1, team2) \notin acc.seen_matches
    THEN [suggestions |->
              Append(acc.suggestions,
                     MatchSuggestion(team1, team2,
                         score_match_quality(team1, team2, strengths, ph,
                                             max_pairings))),
          seen_matches |-> acc.seen_matches \cup {match_signature(team1, team2)}]
    ELSE acc

\* the inner loop over combinations(remaining, 2), from position j on
RECURSIVE doubles_inner(_, _, _, _, _, _, _)
doubles_inner(acc, team1, team2s, j, strengths, ph, max_pairings) ==
    IF j > Len(team2s) THEN acc
    ELSE doubles_inner(
             doubles_step(acc, team1, team2s[j], strengths, ph, max_pairings),
             team1, team2s, j + 1, strengths, ph, max_pairings)

\* the outer loop over combinations(available_players, 2), from position i on
RECURSIVE doubles_outer(_, _, _, _, _, _, _)
doubles_outer(acc, available, team1s, i, strengths, ph, max_pairings) ==
    IF i > Len(team1s) THEN acc
    ELSE doubles_outer(
             doubles_inner(acc, team1s[i],
                 combinations2(remaining_players(available, team1s[i])), 1,
                 strengths, ph, max_pairings),
             available, team1s, i + 1, strengths, ph, max_pairings)

_generate_doubles_suggestions(available, strengths, ph, max_pairings) ==
    doubles_outer([suggestions |-> <<>>, seen_matches |-> {}], available,
                  combinations2(available), 1, strengths, ph,
                  max_pairings).suggestions

\* where list.sort(key=score, reverse=True) puts x in an already sorted
\* list: behind every element whose score is not below x's (stable)
\* mutant: x goes in front of the elements with its score
RECURSIVE insert_position_unstable(_, _, _)
insert_position_unstable(sorted, x, i) ==
    IF i > Len(sorted) \/ RLeq(sorted[i].score, x.score) THEN i
    ELSE insert_position_unstable(sorted, x, i + 1)

RECURSIVE insert_position(_, _, _)
insert_position(sorted, x, i) ==
    IF i > Len(sorted) \/ RLess(sorted[i].score, x.score) THEN i
    ELSE insert_position(sorted, x, i + 1)

insert_sorted(sorted, x) ==
    LET i == insert_position(sorted, x, 1)
    IN SubSeq(sorted, 1, i - 1) \o <<x>> \o SubSeq(sorted, i, Len(sorted))

\* suggestions.sort(key=lambda x: x.score, reverse=True)
RECURSIVE sort_by_score_upto(_, _)
sort_by_score_upto(s, n) ==
    IF n = 0 THEN <<>>
    ELSE insert_sorted(sort_by_score_upto(s, n - 1), s[n])

\* mutant: the sort is ascending
sort_by_score_ascending(s) ==
    LET sorted == sort_by_score_upto(s, Len(s))
    IN [i \in DOMAIN sorted |-> sorted[Len(sorted) + 1 - i]]

sort_by_score(s) == sort_by_score_upto(s, Len(s))

\* mutant: one element too few
first_n_short(s, n) == SubSeq(s, 1, IF n - 1 < Len(s) THEN n - 1 ELSE Len(s))

\* suggestions[:num_suggestions], num_suggestions >= 0
first_n(s, n) == SubSeq(s, 1, IF n < Len(s) THEN n ELSE Len(s))

\* mutant: doubles asks for 2 players too
required_players_two(mtype) == 2

\* 2 if match_type == "singles" else 4
required_players(mtype) == IF mtype = "singles" THEN 2 ELSE 4

(* ------------------------------- state -------------------------------- *)

VARIABLES
    matches,            \* data.matches, the append-only match history
    pc,                 \* "idle", or "returned" after a call
    available_players,  \* the arguments of the latest call
    match_type,
    num_suggestions,
    strengths,          \* the locals of generate_match_suggestions
    pairing_history,
    max_pairings,
    candidates,         \* the local suggestions before the sort
    suggestions,        \* the list the call returned
    stats_df,           \* the frame calculate_player_strengths reads
    row                 \* the parts of the record under construction

vars == <<matches, pc, available_players, match_type, num_suggestions,
          strengths, pairing_history, max_pairings, candidates, suggestions,
          stats_df, row>>

call_vars == <<available_players, match_type, num_suggestions, strengths,
               pairing_history, max_pairings, candidates, suggestions,
               stats_df>>

EmptyHistory == [teammates |-> <<>>, opponents |-> <<>>]

NoCall ==
    /\ available_players = <<>>
    /\ match_type = "doubles"
    /\ num_suggestions = 0
    /\ strengths = <<>>
    /\ pairing_history = EmptyHistory
    /\ max_pairings = 0
    /\ candidates = <<>>
    /\ suggestions = <<>>
    /\ stats_df = <<>>

\* a singles or doubles match as it is usually played: equal team sizes,
\* no player twice, no one-sided score
proper_match(match) ==
    /\ Len(match.team1) = Len(match.team2)
    /\ Cardinality(Range(match.team1 \o match.team2)) = 2 * Len(match.team1)
    /\ match.team1_score <= MaxGoals
    /\ match.team2_score <= MaxGoals

ProperMatch == {match \in Match : proper_match(match)}

all_proper(ms) == \A i \in DOMAIN ms : proper_match(ms[i])

\* lists of distinct ids from S, up to n long
DistinctLists(S, n) ==
    {l \in UNION {[1..k -> S] : k \in 0..n} :
        \A i \in DOMAIN l, j \in DOMAIN l : i # j => l[i] # l[j]}

\* the player lists the match maker page passes: the roster, which is the
\* default selection of its multiselect, with any players deselected
SelectedLists ==
    {l \in DistinctLists(Players, NumPlayers) :
        \A i \in DOMAIN l, j \in DOMAIN l : i < j => l[i] < l[j]}

\* the player lists passed to the enumeration alone
AvailableLists == DistinctLists(1..MaxAvailable, MaxAvailable)

MatchTypes == {"singles", "doubles"}

Init ==
    /\ matches = <<>>
    /\ pc = "idle"
    /\ row = <<>>
    /\ NoCall

\* data.matches.append(match)
AddMatch(match) ==
    /\ matches' = Append(matches, match)
    /\ UNCHANGED <<pc, call_vars, row>>

\* a validated Match is appended to the history; the histories explored
\* are up to MaxAnyMatches validated matches of any shape, or up to
\* MaxMatches proper ones
RecordMatch ==
    /\ pc = "idle"
    /\ \/ /\ Len(matches) < MaxAnyMatches
          /\ \E match \in Match : AddMatch(match)
       \/ /\ Len(matches) >= MaxAnyMatches
          /\ Len(matches) < MaxMatches
          /\ all_proper(matches)
          /\ \E match \in ProperMatch : AddMatch(match)

\* a proper match is appended to a history the match maker is called on
RecordProperMatch ==
    /\ pc = "idle"
    /\ Len(matches) < MaxCalled
    /\ \E match \in ProperMatch : AddMatch(match)

\* the branch on match_type of generate_match_suggestions
enumerate_suggestions(available, mtype, st, ph, mp) ==
    IF mtype = "singles"
    THEN _generate_singles_suggestions(available, st, ph, mp)
    ELSE _generate_doubles_suggestions(available, st, ph, mp)

\* generate_match_suggestions(data, available, mtype, n)
generate_match_suggestions(available, mtype, n) ==
    /\ available_players' = available
    /\ match_type' = mtype
    /\ num_suggestions' = n
    /\ IF Len(available) < 2 \/ Len(available) < required_players(mtype)
       THEN /\ stats_df' = <<>>
            /\ strengths' = <<>>
            /\ pairing_history' = EmptyHistory
            /\ max_pairings' = 0
            /\ candidates' = <<>>
            /\ suggestions' = <<>>
       ELSE /\ stats_df' = calculate_player_stats(matches)
            /\ strengths' = calculate_player_strengths(matches)
            /\ pairing_history' = analyze_pairing_history(matches)
            /\ max_pairings' = _get_max_pairings(pairing_history')
            /\ candidates' = enumerate_suggestions(
                  available, mtype, strengths', pairing_history', max_pairings')
            /\ suggestions' = first_n(sort_by_score(candidates'), n)

\* the match maker page calls generate_match_suggestions
GenerateMatchSuggestions ==
    /\ pc = "idle"
    /\ pc' = "returned"
    /\ \E available \in SelectedLists, mtype \in MatchTypes,
          n \in 0..MaxSuggestions :
          generate_match_suggestions(available, mtype, n)
    /\ UNCHANGED <<matches, row>>

\* the page is rendered again: the returned list is gone
Rerun ==
    /\ pc = "returned"
    /\ pc' = "idle"
    /\ available_players' = <<>>
    /\ match_type' = "doubles"
    /\ num_suggestions' = 0
    /\ strengths' = <<>>
    /\ pairing_history' = EmptyHistory
    /\ max_pairings' = 0
    /\ candidates' = <<>>
    /\ suggestions' = <<>>
    /\ stats_df' = <<>>
    /\ UNCHANGED <<matches, row>>

Next ==
    \/ RecordProperMatch
    \/ GenerateMatchSuggestions
    \/ Rerun

\* the match maker over a growing history
Spec == Init /\ [][Next]_vars

\* the history alone
HistoryNext == RecordMatch

SpecHistory == Init /\ [][HistoryNext]_vars

\* generate_match_suggestions as a function of its arguments, on an empty
\* history
EnumerateInit ==
    /\ matches = <<>>
    /\ pc = "called"
    /\ available_players \in AvailableLists
    /\ match_type \in MatchTypes
    /\ num_suggestions \in 0..MaxSuggestions
    /\ strengths = <<>>
    /\ pairing_history = EmptyHistory
    /\ max_pairings = 0
    /\ candidates = <<>>
    /\ suggestions = <<>>
    /\ stats_df = <<>>
    /\ row = <<>>

\* the call returns
ReturnSuggestions ==
    /\ pc = "called"
    /\ pc' = "returned"
    /\ generate_match_suggestions(available_players, match_type,
                                  num_suggestions)
    /\ UNCHANGED <<matches, row>>

EnumerateNext == ReturnSuggestions

SpecEnumerate == EnumerateInit /\ [][EnumerateNext]_vars

\* the strengths drawn for the scoring alone: two tenths, a half and eight
\* tenths, which a player reaches after 10 matches with 1 win and a goal
\* difference of -2, with 5 wins and 0, and with 9 wins and +2
StrengthValues == {Rat(2, 10), Rat(5, 10), Rat(8, 10)}

\* the pairing histories drawn for the scoring alone: those of no match
\* and of one proper match
PairingHistories ==
    {analyze_pairing_history(ms) :
        ms \in {<<>>} \cup {<<match>> : match \in ProperMatch}}

\* the whole roster in its order
Roster == [i \in 1..NumPlayers |-> i]

\* the enumeration, the scoring and the ranking as a function of the
\* strengths and the pairing history
ScoreInit ==
    /\ matches = <<>>
    /\ pc = "scoring"
    /\ available_players = Roster
    /\ match_type \in MatchTypes
    /\ num_suggestions \in 0..MaxSuggestions
    /\ strengths \in [Players -> StrengthValues]
    /\ pairing_history \in PairingHistories
    /\ max_pairings = _get_max_pairings(pairing_history)
    /\ candidates = <<>>
    /\ suggestions = <<>>
    /\ stats_df = <<>>
    /\ row = <<>>

\* the candidates are enumerated, scored, sorted and cut to the first N
RankSuggestions ==
    /\ pc = "scoring"
    /\ pc' = "returned"
    /\ candidates' = enumerate_suggestions(
          available_players, match_type, strengths, pairing_history,
          max_pairings)
    /\ suggestions' = first_n(sort_by_score(candidates'), num_suggestions)
    /\ UNCHANGED <<matches, available_players, match_type, num_suggestions,
                   strengths, pairing_history, max_pairings, stats_df, row>>

ScoreNext == RankSuggestions

SpecScore == ScoreInit /\ [][ScoreNext]_vars

\* a row of the statistics frame of a player with the given numbers of
\* matches, wins and losses and the given goal difference
StatsRow(p, played, wins, losses, diff) ==
    [player_id |-> p,
     matches_played |-> played,
     wins |-> wins,
     losses |-> losses,
     ties |-> played - wins - losses,
     win_rate |-> Rat(RoundHalfEven(wins * 1000, played), 10),
     goal_difference |-> diff]

\* the numbers some history gives a player: a win adds at least one goal
\* to the difference, a loss takes at least one, a tie leaves it
possible_stats(played, wins, losses, diff) ==
    /\ played >= 1
    /\ wins >= 0
    /\ losses >= 0
    /\ wins + losses <= played
    /\ losses = 0 => diff >= wins
    /\ wins = 0 => diff <= -losses

\* the statistics rows drawn for the strength rating alone
StatsRows ==
    {StatsRow(1, t[1], t[2], t[3], t[4]) :
        t \in {u \in (1..MaxPlayed) \X (0..MaxPlayed) \X (0..MaxPlayed)
                       \X (-MaxDiff..MaxDiff) :
                  possible_stats(u[1], u[2], u[3], u[4])}}

\* calculate_player_strengths as a function of the statistics frame
StrengthInit ==
    /\ matches = <<>>
    /\ pc = "rating"
    /\ row = <<>>
    /\ stats_df \in {[p \in {r.player_id} |-> r] : r \in StatsRows}
    /\ available_players = <<>>
    /\ match_type = "doubles"
    /\ num_suggestions = 0
    /\ strengths = <<>>
    /\ pairing_history = EmptyHistory
    /\ max_pairings = 0
    /\ candidates = <<>>
    /\ suggestions = <<>>

\* the loop of calculate_player_strengths runs over the frame
RatePlayers ==
    /\ pc = "rating"
    /\ pc' = "rated"
    /\ strengths' = rate_players(stats_df)
    /\ UNCHANGED <<matches, row, stats_df, available_players, match_type,
                   num_suggestions, pairing_history, max_pairings, candidates,
                   suggestions>>

StrengthNext == RatePlayers

SpecStrength == StrengthInit /\ [][StrengthNext]_vars

\* the player lists offered to the Team constructor
RawTeams == UNION {[1..k -> Players] : k \in 0..MaxRawTeam}

\* the scores offered to the Match constructor
RawScores == ((-MaxGoals)..MaxGoals) \cup {Blowout}

\* Team(players=...): the team is built, or the validation error is raised
\* and the construction of the record ends
ConstructTeam ==
    /\ pc \in {"idle", "team1"}
    /\ Len(matches) < MaxAnyMatches
    /\ \E players \in RawTeams :
          /\ row' = Append(row, players)
          /\ pc' = IF ~validate_team(players) THEN "ValidationError"
                   ELSE IF pc = "idle" THEN "team1" ELSE "team2"
    /\ UNCHANGED <<matches, call_vars>>

\* Match(team1=..., team2=..., team1_score=..., team2_score=...): the
\* record is built and appended, or the validation error is raised
ConstructMatch ==
    /\ pc = "team2"
    /\ \E team1_score \in RawScores, team2_score \in RawScores :
          IF validate_score(team1_score) /\ validate_score(team2_score)
          THEN /\ matches' = Append(matches,
                       [team1 |-> row[1], team2 |-> row[2],
                        team1_score |-> team1_score,
                        team2_score |-> team2_score])
               /\ row' = <<>>
               /\ pc' = "idle"
          ELSE /\ row' = row \o <<team1_score, team2_score>>
               /\ pc' = "ValidationError"
               /\ UNCHANGED matches
    /\ UNCHANGED call_vars

IngestNext ==
    \/ ConstructTeam
    \/ ConstructMatch

\* records are constructed from raw input and appended to the history
SpecIngest == Init /\ [][IngestNext]_vars

\* the id lists the page builds when two players of the roster share a
\* name: its name-to-id dict keeps one id per name, so an id can repeat
RepeatedLists == UNION {[1..k -> Players] : k \in 0..MaxAvailable}

\* generate_match_suggestions as a function of its arguments, the list
\* possibly repeating an id, on an empty history
RepeatedInit ==
    /\ matches = <<>>
    /\ pc = "called"
    /\ available_players \in RepeatedLists
    /\ match_type \in MatchTypes
    /\ num_suggestions \in 0..MaxSuggestions
    /\ strengths = <<>>
    /\ pairing_history = EmptyHistory
    /\ max_pairings = 0
    /\ candidates = <<>>
    /\ suggestions = <<>>
    /\ stats_df = <<>>
    /\ row = <<>>

SpecRepeated == RepeatedInit /\ [][EnumerateNext]_vars

(* ------------------------------- claims ------------------------------- *)

Min2(a, b) == IF a < b THEN a ELSE b

\* the split a candidate stands for: its two teams as an unordered pair of
\* unordered teams
SplitOf(c) == {Range(c.team1_players), Range(c.team2_players)}

\* every way to split 4 players of S into two unordered teams of 2
AllSplits(S) ==
    LET Pairs == {t \in SUBSET S : Cardinality(t) = 2}
    IN {{tt[1], tt[2]} : tt \in {uu \in Pairs \X Pairs : uu[1] \cap uu[2] = {}}}

\* C(n, 2) and 3 * C(n, 4)
Choose2(n) == (n * (n - 1)) \div 2
ThreeChoose4(n) == (n * (n - 1) * (n - 2) * (n - 3)) \div 8

ReturnedDoubles == pc = "returned" /\ match_type = "doubles"

\* C1: doubles over exactly 4 distinct available players A, B, C, D gives
\* exactly 3 candidates before truncation, the splits (AB|CD), (AC|BD) and
\* (AD|BC), and so min(N, 3) suggestions.
C1_FourPlayersThreeCandidates ==
    (ReturnedDoubles /\ Len(available_players) = 4) =>
        LET a == available_players
        IN /\ Len(candidates) = 3
           /\ {SplitOf(candidates[k]) : k \in DOMAIN candidates}
                = {{{a[1], a[2]}, {a[3], a[4]}},
                   {{a[1], a[3]}, {a[2], a[4]}},
                   {{a[1], a[4]}, {a[2], a[3]}}}
           /\ Len(suggestions) = Min2(num_suggestions, 3)

C1_Witness ==
    /\ ReturnedDoubles
    /\ Len(available_players) = 4
    /\ available_players[1] > available_players[2]
    /\ num_suggestions = 4
    /\ Len(suggestions) = 3

\* C2: for n >= 4 distinct available players the doubles candidates are
\* exactly the 3 * C(n,4) splits of 4 of them into two unordered teams of
\* 2: every split is emitted, and no split is emitted twice.
C2_DoublesCandidatesAreTheSplits ==
    (ReturnedDoubles /\ Len(available_players) >= 4) =>
        /\ {SplitOf(candidates[k]) : k \in DOMAIN candidates}
             = AllSplits(Range(available_players))
        /\ \A k \in DOMAIN candidates, l \in DOMAIN candidates :
              k # l => SplitOf(candidates[k]) # SplitOf(candidates[l])
        /\ Len(candidates) = ThreeChoose4(Len(available_players))

C2_Witness ==
    /\ ReturnedDoubles
    /\ Len(available_players) = 5
    /\ Len(candidates) = 15

\* C3: with fewer available players than the match type requires (2 for
\* singles, 4 for doubles) the call returns the empty list, for every
\* history and every N; it returns before it reads the history, so no
\* step of the computation can fail.
C3_TooFewPlayersEmpty ==
    (/\ pc = "returned"
     /\ Len(available_players)
          < (IF match_type = "singles" THEN 2 ELSE 4)) =>
        /\ suggestions = <<>>
        /\ candidates = <<>>
        /\ strengths = <<>>

C3_Witness ==
    /\ pc = "returned"
    /\ match_type = "doubles"
    /\ Len(available_players) = 3
    /\ matches # <<>>
    /\ num_suggestions = 4
    /\ suggestions = <<>>

CandidatePlayers(c) == Range(c.team1_players \o c.team2_players)

\* C4: a candidate with a player that has no strength entry is scored
\* exactly (0.0, "Missing player strength data"), whatever the pairing
\* history and max_pairings are.
C4_MissingStrengthScoresZero ==
    pc = "returned" =>
        \A k \in DOMAIN candidates :
            (\E p \in CandidatePlayers(candidates[k]) : p \notin DOMAIN strengths)
                => /\ candidates[k].score = RInt(0)
                   /\ candidates[k].reasoning = MissingData

C4_Witness ==
    /\ pc = "returned"
    /\ max_pairings > 0
    /\ \E k \in DOMAIN candidates, l \in DOMAIN candidates :
          /\ \E p \in CandidatePlayers(candidates[k]) : p \notin DOMAIN strengths
          /\ \E p \in CandidatePlayers(candidates[k]) : p \in DOMAIN strengths
          /\ candidates[k].reasoning = MissingData
          /\ candidates[l].reasoning # MissingData

\* C5: on an empty history with enough available players the call still
\* returns min(N, number of candidates) suggestions (C(n,2) candidates for
\* singles, so min(N, 3) for three players), each with score 0.0 and the
\* rationale "Missing player strength data".
C5_EmptyHistoryZeroScores ==
    (/\ pc = "returned"
     /\ matches = <<>>
     /\ Len(available_players) >= required_players(match_type)) =>
        /\ Len(candidates) = (IF match_type = "singles"
                              THEN Choose2(Len(available_players))
                              ELSE ThreeChoose4(Len(available_players)))
        /\ Len(suggestions) = Min2(num_suggestions, Len(candidates))
        /\ \A k \in DOMAIN suggestions :
              /\ suggestions[k].score = RInt(0)
              /\ suggestions[k].reasoning = MissingData

C5_Witness ==
    /\ pc = "returned"
    /\ matches = <<>>
    /\ match_type = "singles"
    /\ Len(available_players) = 3
    /\ num_suggestions = 4
    /\ Len(suggestions) = 3
    /\ suggestions[1].reasoning = MissingData

\* the players that appear in at least one match of the history
PlayersIn(ms) ==
    UNION {Range(ms[i].team1) \cup Range(ms[i].team2) : i \in DOMAIN ms}

\* C6: calculate_player_strengths has an entry for exactly the players
\* that appear in at least one match (none for an empty history), and
\* every strength v satisfies 0.1 <= v <= 1.0.
C6_StrengthKeysAndBounds ==
    LET st == calculate_player_strengths(matches)
    IN /\ DOMAIN st = PlayersIn(matches)
       /\ \A p \in DOMAIN st :
             /\ RLeq(Rat(1, 10), st[p])
             /\ RLeq(st[p], RInt(1))

C6_Witness ==
    LET st == calculate_player_strengths(matches)
    IN /\ Len(matches) = 1
       /\ DOMAIN st # Players
       /\ \E p \in DOMAIN st : st[p] = Rat(1, 10)
       /\ \E p \in DOMAIN st : RLess(Rat(1, 2), st[p])

\* one mapping of the pairing history is symmetric
SymmetricCounts(d) ==
    \A p \in DOMAIN d :
        \A q \in DOMAIN d[p] :
            /\ q \in DOMAIN d
            /\ p \in DOMAIN d[q]
            /\ d[p][q] = d[q][p]

\* C7: after analyze_pairing_history both mappings are symmetric: the
\* reverse entry exists whenever the forward one does, with the same count.
C7_PairingSymmetric ==
    LET ph == analyze_pairing_history(matches)
    IN /\ SymmetricCounts(ph.teammates)
       /\ SymmetricCounts(ph.opponents)

C7_Witness ==
    LET ph == analyze_pairing_history(matches)
    IN /\ Len(matches) = 2
       /\ \E p \in DOMAIN ph.opponents :
             \E q \in DOMAIN ph.opponents[p] :
                p # q /\ ph.opponents[p][q] = 2
       /\ \E p \in DOMAIN ph.teammates :
             \E q \in DOMAIN ph.teammates[p] :
                p # q /\ ph.teammates[p][q] = 1

\* the place of candidate i in a stable descending sort by score: behind
\* every candidate with a higher score and every earlier one with the
\* same score
StableRank(cs, i) ==
    1 + Cardinality({j \in DOMAIN cs :
            \/ RLess(cs[i].score, cs[j].score)
            \/ (cs[j].score = cs[i].score /\ j < i)})

\* C8: the returned list is the first N of the candidates in stable
\* descending order of score: scores do not increase along it, no omitted
\* candidate outscores a returned one, and equal scores keep their
\* enumeration order.
C8_TopNStableDescending ==
    pc = "returned" =>
        /\ Len(suggestions) = Min2(num_suggestions, Len(candidates))
        /\ \A k \in DOMAIN suggestions :
              \E i \in DOMAIN candidates :
                 /\ StableRank(candidates, i) = k
                 /\ suggestions[k] = candidates[i]
        /\ \A k \in DOMAIN suggestions, l \in DOMAIN suggestions :
              k < l => RLeq(suggestions[l].score, suggestions[k].score)

C8_Witness ==
    /\ pc = "returned"
    /\ Len(candidates) = 6
    /\ num_suggestions = 4
    /\ Len(suggestions) = 4
    /\ suggestions[1] # candidates[1]
    /\ RLess(suggestions[2].score, suggestions[1].score)
    /\ \E k \in 1..3 : suggestions[k].score = suggestions[k + 1].score

\* candidate i is ranked strictly before candidate j: wherever j is in the
\* returned list, i is at an earlier place
RankedBefore(i, j) ==
    \A l \in DOMAIN suggestions :
        suggestions[l] = candidates[j] =>
            \E k \in 1..(l - 1) : suggestions[k] = candidates[i]

HasStrengths(c) == \A p \in CandidatePlayers(c) : p \in DOMAIN strengths

BalanceOf(c) ==
    balance_score(team_strength(c.team1_players, strengths),
                  team_strength(c.team2_players, strengths))

VarietyOf(c) ==
    _calculate_variety_score(c.team1_players, c.team2_players,
                             pairing_history, max_pairings)

\* strengths A = B = 0.8, C = D = 0.2 and no pairing history; candidate k
\* is {A,B} vs {C,D} and candidate l is {A,C} vs {B,D}
C9_Example(k, l) ==
    /\ pairing_history = EmptyHistory
    /\ \E a \in Players, b \in Players, c \in Players, d \in Players :
          /\ Cardinality({a, b, c, d}) = 4
          /\ strengths[a] = Rat(8, 10) /\ strengths[b] = Rat(8, 10)
          /\ strengths[c] = Rat(2, 10) /\ strengths[d] = Rat(2, 10)
          /\ SplitOf(candidates[k]) = {{a, b}, {c, d}}
          /\ SplitOf(candidates[l]) = {{a, c}, {b, d}}

\* C9: with strengths A = B = 0.8, C = D = 0.2 and no pairing history,
\* {A,B} vs {C,D} has balance 0.25 (score 0.7 * 0.25 + 0.3) and {A,C} vs
\* {B,D} has balance 1.0 (score 1.0), and the second is ranked strictly
\* before the first; in general, of two candidates with equal variety the
\* one with the strictly higher balance is ranked strictly before the
\* other.
C9_HigherBalanceRanksFirst ==
    (pc = "returned" /\ match_type = "doubles") =>
        \A k \in DOMAIN candidates, l \in DOMAIN candidates :
            /\ C9_Example(k, l) =>
                  /\ candidates[k].reasoning = <<"Team balance", 25, "Variety", 100>>
                  /\ candidates[k].score = Rat(475, 1000)
                  /\ candidates[l].reasoning = <<"Team balance", 100, "Variety", 100>>
                  /\ candidates[l].score = RInt(1)
                  /\ RankedBefore(l, k)
            /\ (/\ HasStrengths(candidates[k])
                /\ HasStrengths(candidates[l])
                /\ VarietyOf(candidates[k]) = VarietyOf(candidates[l])
                /\ RLess(BalanceOf(candidates[k]), BalanceOf(candidates[l])))
                   => /\ RankedBefore(l, k)
                      /\ RLess(candidates[k].score, candidates[l].score)

C9_Witness ==
    /\ pc = "returned"
    /\ match_type = "doubles"
    /\ num_suggestions = 3
    /\ \E k \in DOMAIN candidates, l \in DOMAIN candidates : C9_Example(k, l)
    /\ Len(suggestions) = 3
    /\ suggestions[1].score = RInt(1)
    /\ suggestions[3].score = Rat(475, 1000)
    /\ suggestions[3] = candidates[1]

\* the number of player rows on the strictly winning side of each match
RECURSIVE WinningSlots(_)
WinningSlots(ms) ==
    IF ms = <<>> THEN 0
    ELSE (IF Head(ms).team1_score > Head(ms).team2_score
          THEN Len(Head(ms).team1)
          ELSE IF Head(ms).team2_score > Head(ms).team1_score
          THEN Len(Head(ms).team2)
          ELSE 0)
         + WinningSlots(Tail(ms))

RECURSIVE SumOver(_, _)
SumOver(f, S) ==
    IF S = {} THEN 0
    ELSE LET x == CHOOSE y \in S : TRUE
         IN f[x] + SumOver(f, S \ {x})

TotalWins(ms) ==
    LET stats == calculate_player_stats(ms)
    IN SumOver([p \in DOMAIN stats |-> stats[p].wins], DOMAIN stats)

\* C10 as claimed: the wins of all players sum to at most len(H).
C10_WinsAtMostMatches == TotalWins(matches) <= Len(matches)

\* C10, amended: the wins of all players sum to the number of player rows
\* on strictly winning teams (the winning team's size for each match with
\* a strict winner, nothing for a tie), which is at most 2 * len(H).
C10_WinsAreWinningSlots ==
    /\ TotalWins(matches) = WinningSlots(matches)
    /\ TotalWins(matches) <= 2 * Len(matches)

C10_Witness ==
    /\ Len(matches) = 2
    /\ matches[1].team1_score = matches[1].team2_score
    /\ Len(matches[2].team1) = 2
    /\ matches[2].team1_score > matches[2].team2_score
    /\ TotalWins(matches) = 2


\* C11: of two players with the same number of matches played (at least 1)
\* and the same goal difference, the one with the higher win rate never
\* gets the lower strength
C11_StrengthMonotoneInWinRate ==
    pc = "rated" =>
        \A p \in DOMAIN stats_df :
            \A wins \in 0..stats_df[p].matches_played :
                \A losses \in 0..(stats_df[p].matches_played - wins) :
                    LET mine == stats_df[p]
                        other == StatsRow(p, mine.matches_played, wins, losses,
                                          mine.goal_difference)
                    IN (/\ possible_stats(mine.matches_played, wins, losses,
                                          mine.goal_difference)
                        /\ RLess(mine.win_rate, other.win_rate))
                       => RLeq(strengths[p], rate_players(<<other>>)[1])

\* a player of 10 matches, 5 of them won, with goal difference 0 is rated
\* 0.5, and one more win at the same goal difference is rated higher
C11_Witness ==
    /\ pc = "rated"
    /\ 1 \in DOMAIN stats_df
    /\ stats_df[1].matches_played = 10
    /\ stats_df[1].wins = 5
    /\ stats_df[1].goal_difference = 0
    /\ strengths[1] = Rat(1, 2)
    /\ RLess(strengths[1],
             rate_players(<<StatsRow(1, 10, 6, 4, 0)>>)[1])


\* the team pairs of a candidate whose balance is examined: its two teams,
\* and the first player of team 1 alone against team 2
TeamPairsOf(c) ==
    {<<c.team1_players, c.team2_players>>,
     <<SubSeq(c.team1_players, 1, 1), c.team2_players>>}

C14_TieGoesToTeamTwo ==
    \A i \in DOMAIN matches :
        winner_team(matches[i]) =
            IF matches[i].team1_score > matches[i].team2_score THEN 1 ELSE 2


\* the part offered last to a constructor is malformed: a team of no or
\* of more than 2 players, or a negative score
Malformed(parts) ==
    \/ \E i \in DOMAIN parts : i <= 2 /\ Len(parts[i]) \notin {1, 2}
    \/ \E i \in DOMAIN parts : i > 2 /\ parts[i] < 0

\* every match of the history has 1 or 2 players in each team and no
\* negative score
WellFormedHistory ==
    \A i \in DOMAIN matches :
        /\ Len(matches[i].team1) \in {1, 2}
        /\ Len(matches[i].team2) \in {1, 2}
        /\ matches[i].team1_score >= 0
        /\ matches[i].team2_score >= 0

\* C15: a Team of 0 or of more than 2 players and a Match with a negative
\* score are rejected with a validation error and no record is created,
\* so every match of a history has team sizes in {1, 2} and scores >= 0
C15_MalformedInputRejected ==
    /\ [](WellFormedHistory /\ (Malformed(row) <=> pc = "ValidationError"))
    /\ [][pc' = "ValidationError" => matches' = matches]_vars

\* a record of two teams with score -1 to 1 was rejected
C15_Witness ==
    /\ pc = "ValidationError"
    /\ Len(row) = 4
    /\ Len(row[1]) = 2
    /\ Len(row[2]) = 1
    /\ row[3] = -1
    /\ row[4] = 1
    /\ matches = <<>>


\* the number of player slots of the first n matches
RECURSIVE SlotsUpto(_, _)
SlotsUpto(ms, n) ==
    IF n = 0 THEN 0
    ELSE SlotsUpto(ms, n - 1) + Len(ms[n].team1) + Len(ms[n].team2)

\* the other slot's player of a 2-player team, None for a 1-player team
OtherOf(team, i) == IF Len(team) = 2 THEN team[3 - i] ELSE NoPlayer

\* the row of slot i of a team with the given scores for and against
SlotRowIs(r, team, side, i, for, against) ==
    /\ r.player_id = team[i]
    /\ r.team = side
    /\ r.goals_for = for
    /\ r.goals_against = against
    /\ r.won <=> for > against
    /\ r.lost <=> against > for
    /\ r.teammate = OtherOf(team, i)

\* C17: to_player_match_df has one row per player slot of each match, so
\* as many rows as the team sizes sum to; a team-1 row carries team 1's
\* goals, won and lost flags and teammate, a team-2 row the mirrored ones
C17_OneRowPerPlayerSlot ==
    LET df == to_player_match_df(matches)
    IN /\ Len(df) = SlotsUpto(matches, Len(matches))
       /\ \A n \in DOMAIN matches :
             LET match == matches[n]
                 first == SlotsUpto(matches, n - 1)
             IN /\ \A i \in DOMAIN match.team1 :
                      SlotRowIs(df[first + i], match.team1, 1, i,
                                match.team1_score, match.team2_score)
                /\ \A j \in DOMAIN match.team2 :
                      SlotRowIs(df[first + Len(match.team1) + j],
                                match.team2, 2, j,
                                match.team2_score, match.team1_score)

\* a match of 2 players against 1 that team 1 won gives 3 rows; the
\* third is the lone loser's
C17_Witness ==
    /\ Len(matches) = 1
    /\ Len(matches[1].team1) = 2
    /\ Len(matches[1].team2) = 1
    /\ matches[1].team1_score > matches[1].team2_score
    /\ LET df == to_player_match_df(matches)
       IN /\ Len(df) = 3
          /\ df[1].won /\ df[2].won
          /\ df[1].teammate = df[2].player_id
          /\ df[3].lost
          /\ df[3].teammate = NoPlayer
          /\ df[3].goals_for = matches[1].team2_score


\* the matches in which p and q form a 2-player team
TeamedIn(ms, p, q) ==
    {n \in DOMAIN ms :
        \/ (Len(ms[n].team1) = 2 /\ Range(ms[n].team1) = {p, q})
        \/ (Len(ms[n].team2) = 2 /\ Range(ms[n].team2) = {p, q})}

\* the matches in which p and q are on opposite teams
OpposedIn(ms, p, q) ==
    {n \in DOMAIN ms :
        \/ (p \in Range(ms[n].team1) /\ q \in Range(ms[n].team2))
        \/ (q \in Range(ms[n].team1) /\ p \in Range(ms[n].team2))}

\* the 2-player teams, over all matches, that are p with q
TeamsOf(ms, p, q) ==
    {t \in (DOMAIN ms) \X {1, 2} :
        LET team == IF t[2] = 1 THEN ms[t[1]].team1 ELSE ms[t[1]].team2
        IN Len(team) = 2 /\ Range(team) = {p, q}}

\* the cross-team pairs of player slots, over all matches, that are p
\* against q
CrossPairsOf(ms, p, q) ==
    {t \in (DOMAIN ms) \X {1, 2} \X {1, 2} :
        /\ t[2] \in DOMAIN ms[t[1]].team1
        /\ t[3] \in DOMAIN ms[t[1]].team2
        /\ {ms[t[1]].team1[t[2]], ms[t[1]].team2[t[3]]} = {p, q}}

\* no player fills two slots of the match
NoRepeatedPlayer(match) ==
    Cardinality(Range(match.team1 \o match.team2))
        = Len(match.team1) + Len(match.team2)

\* C18 as claimed: for distinct players the teammate count is the number
\* of matches in which they form a team and the opponent count the number
\* of matches in which they are on opposite teams
C18_CountsAreMatches ==
    LET ph == analyze_pairing_history(matches)
    IN \A p \in Players, q \in Players :
          p # q =>
              /\ get2(ph.teammates, p, q)
                    = Cardinality(TeamedIn(matches, p, q))
              /\ get2(ph.opponents, p, q)
                    = Cardinality(OpposedIn(matches, p, q))

\* C18, amended: for distinct players the teammate count is the number of
\* 2-player teams they form and the opponent count the number of
\* cross-team pairs of slots they fill, over all matches; these are the
\* numbers of matches when no match has a player in two of its slots
C18_CountsArePairings ==
    LET ph == analyze_pairing_history(matches)
    IN \A p \in Players, q \in Players :
          p # q =>
              /\ get2(ph.teammates, p, q)
                    = Cardinality(TeamsOf(matches, p, q))
              /\ get2(ph.opponents, p, q)
                    = Cardinality(CrossPairsOf(matches, p, q))
              /\ (\A n \in DOMAIN matches : NoRepeatedPlayer(matches[n]))
                    => /\ get2(ph.teammates, p, q)
                            = Cardinality(TeamedIn(matches, p, q))
                       /\ get2(ph.opponents, p, q)
                            = Cardinality(OpposedIn(matches, p, q))

\* the pair 1, 2 plays the pair 1, 2: one match, two teams of the pair and
\* two cross-team pairs of it
C18_Witness ==
    LET ph == analyze_pairing_history(matches)
    IN    /\ Len(matches) = 1
          /\ matches[1].team1 = <<1, 2>>
          /\ matches[1].team2 = <<1, 2>>
          /\ get2(ph.teammates, 1, 2) = 2
          /\ get2(ph.opponents, 1, 2) = 2


\* the historical teammate count of a team of two, 0 for a team of one
TeammateCountOf(team) ==
    IF Len(team) = 2 THEN get2(pairing_history.teammates, team[1], team[2])
    ELSE 0

\* the historical teammate counts of the two teams of a candidate plus the
\* historical opponent counts of its cross-team pairs of players
PairingsOf(c) ==
    LET cross == (DOMAIN c.team1_players) \X (DOMAIN c.team2_players)
    IN TeammateCountOf(c.team1_players) + TeammateCountOf(c.team2_players)
       + SumOver([t \in cross |->
                     get2(pairing_history.opponents,
                          c.team1_players[t[1]], c.team2_players[t[2]])],
                 cross)

\* 1.0 without pairings in the history, else
\* max(0.1, 1 - total_pairings / (4 * max_pairing_count))
VarietyByFormula(c) ==
    IF max_pairings = 0 THEN RInt(1)
    ELSE LET v == RSub(RInt(1), Rat(PairingsOf(c), 4 * max_pairings))
         IN IF RLess(v, Rat(1, 10)) THEN Rat(1, 10) ELSE v

TeamSum(team) ==
    IF Len(team) = 1 THEN strengths[team[1]]
    ELSE RAdd(strengths[team[1]], strengths[team[2]])

\* 1 - |s1 - s2| / max(max(s1, s2), 1.0)
BalanceByFormula(c) ==
    LET s1 == TeamSum(c.team1_players)
        s2 == TeamSum(c.team2_players)
        hi == IF RLess(s1, s2) THEN s2 ELSE s1
        lo == IF RLess(s1, s2) THEN s1 ELSE s2
        scale == IF RLess(hi, RInt(1)) THEN RInt(1) ELSE hi
    IN RSub(RInt(1), RDiv(RSub(hi, lo), scale))

\* a number rounded to 2 decimal places, in hundredths
Hundredths(x) == RoundHalfEven(x[1] * 100, x[2])

\* C20: a candidate whose players all have a strength is scored 0.7 *
\* balance + 0.3 * variety, with the balance 1 - |s1 - s2| / max(max(s1,
\* s2), 1.0) of the summed team strengths, and its rationale reports both
\* sub-scores to 2 decimal places
C20_FinalScoreIsWeightedSum ==
    pc = "returned" =>
        \A k \in DOMAIN candidates :
            LET c == candidates[k]
            IN HasStrengths(c) =>
                  /\ c.score = RAdd(RMul(Rat(7, 10), BalanceByFormula(c)),
                                    RMul(Rat(3, 10), VarietyOf(c)))
                  /\ c.reasoning
                        = <<"Team balance", Hundredths(BalanceByFormula(c)),
                            "Variety", Hundredths(VarietyOf(c))>>

\* strengths 0.8 + 0.8 against 0.2 + 0.2 with the same teams once before:
\* balance 0.25, variety 0.1, score 0.205
C20_Witness ==
    /\ pc = "returned"
    /\ \E k \in DOMAIN candidates :
          /\ Len(candidates[k].team1_players) = 2
          /\ BalanceByFormula(candidates[k]) = Rat(1, 4)
          /\ candidates[k].score = Rat(205, 1000)
          /\ candidates[k].reasoning = <<"Team balance", 25, "Variety", 10>>


\* the call went past its two early returns
PastGuards ==
    /\ pc = "returned"
    /\ Len(available_players) >= 2
    /\ Len(available_players) >= (IF match_type = "singles" THEN 2 ELSE 4)

\* the largest number of times two players were teammates, or opponents,
\* in the whole history; 0 for an empty history
LargestPairing(ms) ==
    MaxOfSet({Cardinality(TeamsOf(ms, p, q)) : p \in Players, q \in Players}
             \cup {Cardinality(CrossPairsOf(ms, p, q)) :
                       p \in Players, q \in Players})

StrengthByFormula(m, w, g) ==
    LET e == IF m < 10 THEN Rat(m, 10) ELSE RInt(1)
        per_match == Rat(g, 3 * m)
        capped == IF RLess(Rat(3, 10), per_match) THEN Rat(3, 10) ELSE per_match
        base == RAdd(RMul(Rat(7, 10), Rat(w, m)),
                     RMul(Rat(3, 10), RAdd(capped, Rat(1, 2))))
        raw == RAdd(RMul(base, e), RMul(Rat(1, 2), RSub(RInt(1), e)))
    IN IF RLess(raw, Rat(1, 10)) THEN Rat(1, 10)
       ELSE IF RLess(RInt(1), raw) THEN RInt(1) ELSE raw

\* C22 as claimed: the strength of a player with m >= 1 matches, w wins
\* and goal difference g is the clamped formula with the win-rate
\* fraction exactly w / m
C22_StrengthFromExactWinRate ==
    pc = "rated" =>
        \A p \in DOMAIN stats_df :
            strengths[p] = StrengthByFormula(stats_df[p].matches_played,
                                             stats_df[p].wins,
                                             stats_df[p].goal_difference)


\* the position of a player in a list of distinct players
PositionIn(list, p) == CHOOSE i \in DOMAIN list : list[i] = p

\* the positions in the available list of the two players of a singles
\* candidate
PositionsOf(c) ==
    <<PositionIn(available_players, c.team1_players[1]),
      PositionIn(available_players, c.team2_players[1])>>

\* C23: for singles and n >= 2 distinct available players the candidates
\* are the C(n,2) unordered pairs, each once, as team1 = [p1] and team2 =
\* [p2] with p1 before p2 in the list, in lexicographic order of positions
C23_SinglesCandidatesAreThePairs ==
    (pc = "returned" /\ match_type = "singles"
        /\ Len(available_players) >= 2) =>
        /\ Len(candidates) = Choose2(Len(available_players))
        /\ {CandidatePlayers(candidates[k]) : k \in DOMAIN candidates}
              = {t \in SUBSET Range(available_players) : Cardinality(t) = 2}
        /\ \A k \in DOMAIN candidates :
              /\ Len(candidates[k].team1_players) = 1
              /\ Len(candidates[k].team2_players) = 1
              /\ PositionsOf(candidates[k])[1] < PositionsOf(candidates[k])[2]
        /\ \A k \in DOMAIN candidates, l \in DOMAIN candidates :
              k < l => tuple_less(PositionsOf(candidates[k]),
                                  PositionsOf(candidates[l]))

\* four players listed out of id order give six candidates, the first of
\* the first two listed and the last of the last two
C23_Witness ==
    /\ pc = "returned"
    /\ match_type = "singles"
    /\ Len(available_players) = 4
    /\ available_players[2] < available_players[1]
    /\ Len(candidates) = 6
    /\ candidates[1].team1_players = <<available_players[1]>>
    /\ candidates[1].team2_players = <<available_players[2]>>
    /\ candidates[6].team1_players = <<available_players[3]>>
    /\ candidates[6].team2_players = <<available_players[4]>>


\* the matches of the history in which p takes part
PlayedIn(ms, p) ==
    {n \in DOMAIN ms : p \in Range(ms[n].team1 \o ms[n].team2)}

\* the player slots, over all matches, that p fills
SlotsOf(ms, p) ==
    {t \in (DOMAIN ms) \X {1, 2} \X {1, 2} :
        LET team == IF t[2] = 1 THEN ms[t[1]].team1 ELSE ms[t[1]].team2
        IN t[3] \in DOMAIN team /\ team[t[3]] = p}

\* the goals scored by, and against, the side of slot t
GoalsFor(ms, t) ==
    IF t[2] = 1 THEN ms[t[1]].team1_score ELSE ms[t[1]].team2_score

GoalsAgainst(ms, t) ==
    IF t[2] = 1 THEN ms[t[1]].team2_score ELSE ms[t[1]].team1_score

\* C24 as claimed: matches_played of a player is the number of matches in
\* which the player takes part, wins + losses + ties is matches_played and
\* goal_difference is goals_for - goals_against
C24_MatchesPlayedAreMatches ==
    LET stats == calculate_player_stats(matches)
    IN \A p \in DOMAIN stats :
          /\ stats[p].matches_played = Cardinality(PlayedIn(matches, p))
          /\ stats[p].wins + stats[p].losses + stats[p].ties
                = stats[p].matches_played
          /\ stats[p].goal_difference
                = stats[p].goals_for - stats[p].goals_against

\* C24, amended: matches_played of a player is the number of player slots
\* the player fills over the history, which is the number of matches the
\* player takes part in when no match has a player in two of its slots;
\* each slot is counted as exactly one of win, loss or tie, and
\* goal_difference is the goals of the player's sides less those of the
\* other sides
C24_MatchesPlayedAreSlots ==
    LET stats == calculate_player_stats(matches)
    IN /\ DOMAIN stats = {p \in Players : PlayedIn(matches, p) # {}}
       /\ \A p \in DOMAIN stats :
             LET slots == SlotsOf(matches, p)
             IN /\ stats[p].matches_played = Cardinality(slots)
                /\ (\A n \in DOMAIN matches : NoRepeatedPlayer(matches[n]))
                      => stats[p].matches_played
                           = Cardinality(PlayedIn(matches, p))
                /\ stats[p].wins + stats[p].losses + stats[p].ties
                      = stats[p].matches_played
                /\ stats[p].wins
                      = Cardinality({t \in slots :
                            GoalsFor(matches, t) > GoalsAgainst(matches, t)})
                /\ stats[p].ties
                      = Cardinality({t \in slots :
                            GoalsFor(matches, t) = GoalsAgainst(matches, t)})
                /\ stats[p].goals_for
                      = SumOver([t \in slots |-> GoalsFor(matches, t)], slots)
                /\ stats[p].goal_difference
                      = stats[p].goals_for - stats[p].goals_against
                /\ stats[p].goal_difference
                      = SumOver([t \in slots |-> GoalsFor(matches, t)], slots)
                        - SumOver([t \in slots |-> GoalsAgainst(matches, t)],
                                  slots)

\* player 1 plays player 1 and the match is tied: one match, two slots,
\* two matches played, both ties
C24_Witness ==
    /\ Len(matches) = 1
    /\ matches[1].team1 = <<1>>
    /\ matches[1].team2 = <<1>>
    /\ matches[1].team1_score = matches[1].team2_score
    /\ calculate_player_stats(matches)[1].matches_played = 2
    /\ calculate_player_stats(matches)[1].ties = 2


\* a team with its players in the other order
Reversed(team) == [i \in DOMAIN team |-> team[Len(team) + 1 - i]]

\* the presentations of a candidate: its teams in either order, each with
\* its players in either order
Arrangements(c) ==
    LET teams1 == {c.team1_players, Reversed(c.team1_players)}
        teams2 == {c.team2_players, Reversed(c.team2_players)}
    IN (teams1 \X teams2) \cup (teams2 \X teams1)

\* C25: the score of a candidate does not depend on its presentation:
\* with the teams exchanged, or the two players of a team exchanged,
\* score_match_quality returns the score and the rationale of the
\* candidate the enumeration kept
C25_ScoreSymmetric ==
    pc = "returned" =>
        \A k \in DOMAIN candidates :
            \A a \in Arrangements(candidates[k]) :
                LET rated == score_match_quality(a[1], a[2], strengths,
                                                 pairing_history, max_pairings)
                IN /\ rated.score = candidates[k].score
                   /\ rated.reasoning = candidates[k].reasoning

\* a doubles candidate of unequal teams, with a history, and its eight
\* presentations
C25_Witness ==
    /\ pc = "returned"
    /\ match_type = "doubles"
    /\ max_pairings = 1
    /\ \E k \in DOMAIN candidates :
          /\ Cardinality(Arrangements(candidates[k])) = 8
          /\ TeamSum(candidates[k].team1_players)
                # TeamSum(candidates[k].team2_players)
          /\ PairingsOf(candidates[k]) = 2
          /\ RLess(candidates[k].score, RInt(1))


\* C26: a candidate scores 0.0 exactly when one of its players has no
\* strength entry, and between 0.03 and 1.0 otherwise; so in the ranked
\* result no candidate with a player without match history comes before
\* one with complete strength data, and none is returned while one with
\* complete data is left out
C26_CompleteDataRanksFirst ==
    pc = "returned" =>
        /\ \A k \in DOMAIN candidates :
              /\ (candidates[k].score = RInt(0)) <=> ~HasStrengths(candidates[k])
              /\ HasStrengths(candidates[k]) =>
                    /\ RLeq(Rat(3, 100), candidates[k].score)
                    /\ RLeq(candidates[k].score, RInt(1))
        /\ \A k \in DOMAIN suggestions, l \in DOMAIN suggestions :
              (HasStrengths(suggestions[k]) /\ ~HasStrengths(suggestions[l]))
                  => k < l
        /\ (\E l \in DOMAIN suggestions : ~HasStrengths(suggestions[l]))
              => \A k \in DOMAIN candidates :
                    HasStrengths(candidates[k])
                        => \E m \in DOMAIN suggestions :
                              suggestions[m] = candidates[k]

\* after a singles match of players 2 and 3 a singles request for players
\* 1, 2, 3: the pair 2, 3 is enumerated last and returned first
C26_Witness ==
    /\ pc = "returned"
    /\ match_type = "singles"
    /\ available_players = <<1, 2, 3>>
    /\ DOMAIN strengths = {2, 3}
    /\ Len(candidates) = 3
    /\ Len(suggestions) >= 2
    /\ suggestions[1] = candidates[3]
    /\ HasStrengths(suggestions[1])
    /\ ~HasStrengths(suggestions[2])
    /\ suggestions[2].score = RInt(0)


\* a suggestion of teams of the given size, of available players, with no
\* player id twice
WellFormed(c, size) ==
    /\ Len(c.team1_players) = size
    /\ Len(c.team2_players) = size
    /\ CandidatePlayers(c) \subseteq Range(available_players)
    /\ Cardinality(CandidatePlayers(c)) = 2 * size

\* C27 as claimed: every returned suggestion has 1 player per team for
\* singles and 2 for doubles, all from the available list, and no player
\* id twice, also when the available list repeats an id
C27_SuggestionsWellFormed ==
    pc = "returned" =>
        \A k \in DOMAIN suggestions :
            WellFormed(suggestions[k],
                       IF match_type = "singles" THEN 1 ELSE 2)


\* C28: no strength exceeds 0.94 = 0.7 + 0.3 * 0.8, so the upper clamp at
\* 1.0 never changes a value; the lower clamp at 0.1 does: 10 matches
\* without a win at goal difference -12 give 0.03 before the clamp
C28_StrengthAtMostNinetyFour ==
    pc = "rated" =>
        \A p \in DOMAIN stats_df :
            /\ RLeq(strengths[p], Rat(94, 100))
            /\ RLeq(unclamped_strength(stats_df[p]), Rat(94, 100))
            /\ RLeq(Rat(1, 10), unclamped_strength(stats_df[p]))
                  => strengths[p] = unclamped_strength(stats_df[p])
            /\ (/\ stats_df[p].matches_played = 10
                /\ stats_df[p].wins = 0
                /\ stats_df[p].goal_difference = -12)
                  => /\ unclamped_strength(stats_df[p]) = Rat(3, 100)
                     /\ strengths[p] = Rat(1, 10)

\* 10 matches, all won, at goal difference 10: exactly 0.94
C28_Witness ==
    /\ pc = "rated"
    /\ stats_df[1].matches_played = 10
    /\ stats_df[1].wins = 10
    /\ stats_df[1].goal_difference = 10
    /\ strengths[1] = Rat(94, 100)


\* what appending a match does to the pairing history whatever the match:
\* no count and no maximum decreases, and only entries of two players of
\* the appended match change
GrowsWithin(old, new, match) ==
    /\ _get_max_pairings(new) >= _get_max_pairings(old)
    /\ \A p \in Players, q \in Players :
          /\ get2(new.teammates, p, q) >= get2(old.teammates, p, q)
          /\ get2(new.opponents, p, q) >= get2(old.opponents, p, q)
          /\ (\/ get2(new.teammates, p, q) # get2(old.teammates, p, q)
              \/ get2(new.opponents, p, q) # get2(old.opponents, p, q))
                => {p, q} \subseteq Range(match.team1 \o match.team2)

\* each cross-team pair and each 2-player team of the match has its count
\* raised by exactly 1, in both orderings
RaisedByOne(old, new, match) ==
    /\ \A i \in DOMAIN match.team1, j \in DOMAIN match.team2 :
          LET p == match.team1[i]
              q == match.team2[j]
          IN /\ get2(new.opponents, p, q) = get2(old.opponents, p, q) + 1
             /\ get2(new.opponents, q, p) = get2(old.opponents, q, p) + 1
    /\ \A team \in {match.team1, match.team2} :
          Len(team) = 2 =>
              /\ get2(new.teammates, team[1], team[2])
                    = get2(old.teammates, team[1], team[2]) + 1
              /\ get2(new.teammates, team[2], team[1])
                    = get2(old.teammates, team[2], team[1]) + 1

\* the history of `after`, which is `before` with one match appended,
\* against the history of `before`, as the claim states it
AppendRaisesByOne(before, after) ==
    LET match == after[Len(after)]
        old == analyze_pairing_history(before)
        new == analyze_pairing_history(after)
    IN GrowsWithin(old, new, match) /\ RaisedByOne(old, new, match)

\* the same comparison with the rise counted in pairs of slots
AppendRaisesByPairings(before, after) ==
    LET match == after[Len(after)]
        old == analyze_pairing_history(before)
        new == analyze_pairing_history(after)
    IN /\ GrowsWithin(old, new, match)
       /\ \A p \in Players, q \in Players :
             p # q =>
                 /\ get2(new.opponents, p, q)
                       = get2(old.opponents, p, q)
                         + Cardinality(CrossPairsOf(<<match>>, p, q))
                 /\ get2(new.teammates, p, q)
                       = get2(old.teammates, p, q)
                         + Cardinality(TeamsOf(<<match>>, p, q))
       /\ NoRepeatedPlayer(match) => RaisedByOne(old, new, match)

\* C29 as claimed: appending a match decreases no count and no maximum,
\* changes only entries of players of that match, and raises the count of
\* each of its cross-team pairs and 2-player teams by exactly 1
C29_AppendRaisesByOne ==
    [][matches' # matches => AppendRaisesByOne(matches, matches')]_vars

\* C29, amended: appending a match decreases no count and no maximum and
\* changes only entries of players of that match; for distinct players
\* the opponent count rises by the number of cross-team pairs of slots of
\* that match the two fill and the teammate count by the number of its
\* 2-player teams they form, in both orderings, which is exactly 1 for
\* each cross-team pair and 2-player team of a match without a player in
\* two slots
C29_AppendRaisesByPairings ==
    [][matches' # matches => AppendRaisesByPairings(matches, matches')]_vars

\* two doubles matches of the same teams: every count of the first is
\* raised to 2 by the second
C29_Witness ==
    /\ Len(matches) = 2
    /\ matches[1].team1 = <<1, 2>>
    /\ matches[1].team2 = <<3, 4>>
    /\ matches[2].team1 = <<1, 2>>
    /\ matches[2].team2 = <<3, 4>>
    /\ get2(analyze_pairing_history(matches).teammates, 2, 1) = 2
    /\ get2(analyze_pairing_history(matches).opponents, 4, 1) = 2
    /\ _get_max_pairings(analyze_pairing_history(matches)) = 2

\* no match of the history has a player on both of its teams
NoPlayerOnBothTeams(ms) ==
    \A n \in DOMAIN ms : Range(ms[n].team1) \cap Range(ms[n].team2) = {}

\* total_matches is the sum of the three counts, and swapping the players
\* swaps p1_wins and p2_wins and keeps ties and total_matches
HeadToHeadSumsAndSwaps(ms, p1, p2) ==
    LET h == calculate_head_to_head(ms, p1, p2)
        swapped == calculate_head_to_head(ms, p2, p1)
    IN /\ h.total_matches = h.p1_wins + h.p2_wins + h.ties
       /\ swapped.p1_wins = h.p2_wins
       /\ swapped.p2_wins = h.p1_wins
       /\ swapped.ties = h.ties
       /\ swapped.total_matches = h.total_matches

\* the head-to-head counts read off the scores: the matches with p1 and p2
\* on opposite teams that p1's team wins, that p2's team wins, and that
\* neither wins
HeadToHeadFromScores(ms, p1, p2) ==
    LET h == calculate_head_to_head(ms, p1, p2)
        opposed == OpposedIn(ms, p1, p2)
        side(n, p) == IF p \in Range(ms[n].team1) THEN 1 ELSE 2
        score(n, t) == IF t = 1 THEN ms[n].team1_score ELSE ms[n].team2_score
    IN /\ h.p1_wins = Cardinality({n \in opposed :
                          score(n, side(n, p1)) > score(n, side(n, p2))})
       /\ h.p2_wins = Cardinality({n \in opposed :
                          score(n, side(n, p2)) > score(n, side(n, p1))})
       /\ h.ties = Cardinality({n \in opposed :
                          ms[n].team1_score = ms[n].team2_score})

\* C30 as claimed: in a history where no player is on both teams of a
\* match, for distinct players total_matches is the sum of the three
\* counts and equals their opponent count in the pairing history, and
\* swapping the players swaps the wins and keeps ties and total_matches
C30_TotalIsOpponentCount ==
    NoPlayerOnBothTeams(matches) =>
        \A p1 \in Players, p2 \in Players :
            p1 # p2 =>
                /\ HeadToHeadSumsAndSwaps(matches, p1, p2)
                /\ calculate_head_to_head(matches, p1, p2).total_matches
                      = get2(analyze_pairing_history(matches).opponents,
                             p1, p2)

\* C30, amended: in a history where no player is on both teams of a
\* match, for distinct players total_matches is the sum of the three
\* counts, each counting the matches with the two on opposite teams by
\* who wins, so it is the number of those matches, which is their opponent
\* count when no player fills two slots of a match; swapping the players
\* swaps the wins and keeps ties and total_matches
C30_TotalIsOpposedMatches ==
    NoPlayerOnBothTeams(matches) =>
        \A p1 \in Players, p2 \in Players :
            p1 # p2 =>
                /\ HeadToHeadSumsAndSwaps(matches, p1, p2)
                /\ HeadToHeadFromScores(matches, p1, p2)
                /\ calculate_head_to_head(matches, p1, p2).total_matches
                      = Cardinality(OpposedIn(matches, p1, p2))
                /\ (\A n \in DOMAIN matches : NoRepeatedPlayer(matches[n]))
                      => calculate_head_to_head(matches, p1, p2).total_matches
                            = get2(analyze_pairing_history(matches).opponents,
                                   p1, p2)

\* players 1 and 2 meet in a singles match that 1 wins and then play a
\* doubles match as a team: one head-to-head match, won by player 1
C30_Witness ==
    /\ Len(matches) = 2
    /\ matches[1].team1 = <<1>>
    /\ matches[1].team2 = <<2>>
    /\ matches[1].team1_score > matches[1].team2_score
    /\ matches[2].team1 = <<1, 2>>
    /\ matches[2].team2 = <<3, 4>>
    /\ calculate_head_to_head(matches, 1, 2)
          = [p1_wins |-> 1, p2_wins |-> 0, ties |-> 0, total_matches |-> 1]
    /\ calculate_head_to_head(matches, 2, 1)
          = [p1_wins |-> 0, p2_wins |-> 1, ties |-> 0, total_matches |-> 1]
    /\ get2(analyze_pairing_history(matches).opponents, 1, 2) = 1

=============================================================================
